---- MODULE Spec2Model ----
(***************************************************************************)
(* A model of .scripts/refreshobservations.py: the script that mirrors a   *)
(* user's iNaturalist observations into Hugo markdown files.               *)
(*                                                                         *)
(* Text (file contents, JSON documents, file names) is a sequence of       *)
(* units. A unit is one character, except that a word of letters (a        *)
(* dictionary key name, a JSON word such as true, a value such as casual)  *)
(* is one unit: it holds no '-', quote, backslash, bracket, digit or white *)
(* space, so no search or slice of the script can cut it in two.           *)
(***************************************************************************)
EXTENDS Integers, Sequences, FiniteSets, TLC

(***************************************************************************)
(* Python values.                                                          *)
(***************************************************************************)
None == [t |-> "none"]
JStr(s) == [t |-> "str", v |-> s]
JWord(w) == [t |-> "word", v |-> w]
JNum(n) == [t |-> "num", v |-> n]
JList(l) == [t |-> "list", v |-> l]
JDict(f) == [t |-> "dict", v |-> f]

\* dict[key], and whether the lookup raises KeyError
HasKey(d, k) == d.t = "dict" /\ k \in DOMAIN d.v
Get(d, k) == d.v[k]

\* isinstance(x, dict), isinstance(x, list)
IsDict(x) == x.t = "dict"
IsList(x) == x.t = "list"

(***************************************************************************)
(* Python string operations.                                               *)
(***************************************************************************)
Min(a, b) == IF a < b THEN a ELSE b
Max(a, b) == IF a > b THEN a ELSE b

\* s[a:b] with Python's clamping and negative indices (0-based, b excluded)
PySlice(s, a, b) ==
    LET n  == Len(s)
        lo == IF a < 0 THEN Max(n + a, 0) ELSE Min(a, n)
        hi == IF b < 0 THEN Max(n + b, 0) ELSE Min(b, n)
    IN  IF lo >= hi THEN <<>> ELSE SubSeq(s, lo + 1, hi)

\* s.find(p, start): the lowest 0-based index >= start where p occurs, or -1
find(s, p, start) ==
    LET hits == {j \in start..(Len(s) - Len(p)) : SubSeq(s, j + 1, j + Len(p)) = p}
    IN  IF hits = {} THEN -1 ELSE CHOOSE j \in hits : \A h \in hits : j <= h

\* str(n) of a non-negative integer: its decimal digits
Digit(d) == <<"0", "1", "2", "3", "4", "5", "6", "7", "8", "9">>[d + 1]
Digits == {Digit(d) : d \in 0..9}
DigitValue(c) == CHOOSE d \in 0..9 : Digit(d) = c
RECURSIVE str(_)
str(n) == IF n < 10 THEN <<Digit(n)>> ELSE str(n \div 10) \o <<Digit(n % 10)>>

(***************************************************************************)
(* json.dumps and json.loads.                                              *)
(***************************************************************************)
QUOTE == "\""
BACKSLASH == "\\"
NL == "\n"
WhiteSpace == {" ", NL}
Words == {"true", "false", "null"}

\* A Python dict keeps its keys in insertion order and json.dumps writes them
\* in that order: the order in which reformat_obs inserts them (taxon's two
\* keys after it).
KeyOrder ==
    << <<"syndication">>, <<"date">>, <<"taxon">>, <<"name">>, <<"common_name">>,
       <<"quality_grade">>, <<"identifications_most_agree">>,
       <<"species_guess">>, <<"identifications_most_disagree">>,
       <<"captive">>, <<"project_ids">>,
       <<"community_taxon_id">>, <<"geojson">>,
       <<"owners_identification_from_vision">>,
       <<"identifications_count">>, <<"obscured">>,
       <<"num_identification_agreements">>,
       <<"num_identification_disagreements">>,
       <<"place_guess">>, <<"photos">> >>

OrderedKeys(f) == SelectSeq(KeyOrder, LAMBDA k : k \in DOMAIN f)

\* the text of a string between its quotes: quote and backslash are escaped
RECURSIVE escape(_)
escape(s) ==
    IF s = <<>> THEN <<>>
    ELSE (IF Head(s) \in {QUOTE, BACKSLASH} THEN <<BACKSLASH, Head(s)>>
          ELSE <<Head(s)>>) \o escape(Tail(s))

\* the texts of parts joined by ", "
RECURSIVE join(_)
join(parts) ==
    IF parts = <<>> THEN <<>>
    ELSE IF Len(parts) = 1 THEN parts[1]
    ELSE parts[1] \o <<",", " ">> \o join(Tail(parts))

RECURSIVE dumps(_)
dumps(x) ==
    CASE x.t = "str"  -> <<QUOTE>> \o escape(x.v) \o <<QUOTE>>
      [] x.t = "word" -> <<x.v>>
      [] x.t = "num"  -> str(x.v)
      [] x.t = "list" ->
            <<"[">> \o join([i \in 1..Len(x.v) |-> dumps(x.v[i])]) \o <<"]">>
      [] x.t = "dict" ->
            LET ks == OrderedKeys(x.v)
            IN  <<"{">> \o
                join([i \in 1..Len(ks) |->
                        <<QUOTE>> \o escape(ks[i]) \o <<QUOTE, ":", " ">>
                        \o dumps(x.v[ks[i]])])
                \o <<"}">>

\* A parse result: ok, the value, and the 1-based position after it.
ParseFail == [ok |-> FALSE, v |-> None, i |-> 0]
Parsed(v, i) == [ok |-> TRUE, v |-> v, i |-> i]

RECURSIVE SkipWs(_, _)
SkipWs(s, i) ==
    IF i <= Len(s) /\ s[i] \in WhiteSpace THEN SkipWs(s, i + 1) ELSE i

\* the units of a string whose opening quote is at i - 1, up to its closing quote
RECURSIVE ParseChars(_, _, _)
ParseChars(s, i, acc) ==
    IF i > Len(s) \/ s[i] = NL THEN ParseFail
    ELSE IF s[i] = QUOTE THEN Parsed(acc, i + 1)
    ELSE IF s[i] = BACKSLASH
         THEN IF i + 1 <= Len(s) /\ s[i + 1] \in {QUOTE, BACKSLASH}
              THEN ParseChars(s, i + 2, Append(acc, s[i + 1]))
              ELSE ParseFail
    ELSE ParseChars(s, i + 1, Append(acc, s[i]))

RECURSIVE ParseDigits(_, _, _)
ParseDigits(s, i, acc) ==
    IF i <= Len(s) /\ s[i] \in Digits
    THEN ParseDigits(s, i + 1, 10 * acc + DigitValue(s[i]))
    ELSE Parsed(JNum(acc), i)

RECURSIVE ParseValue(_, _)
RECURSIVE ParseElements(_, _)
RECURSIVE ParseMembers(_, _)

StringParsed(r) == IF r.ok THEN Parsed(JStr(r.v), r.i) ELSE ParseFail

\* after "[" and white space
ListAt(s, j) ==
    IF j <= Len(s) /\ s[j] = "]" THEN Parsed(JList(<<>>), j + 1)
    ELSE ParseElements(s, j)

\* after "{" and white space
DictAt(s, j) ==
    IF j <= Len(s) /\ s[j] = "}" THEN Parsed(JDict(<<>>), j + 1)
    ELSE ParseMembers(s, j)

\* the value that starts at i, no white space before it
ValueAt(s, i) ==
    IF i > Len(s) THEN ParseFail
    ELSE IF s[i] = QUOTE THEN StringParsed(ParseChars(s, i + 1, <<>>))
    ELSE IF s[i] \in Words THEN Parsed(JWord(s[i]), i + 1)
    ELSE IF s[i] \in Digits THEN ParseDigits(s, i, 0)
    ELSE IF s[i] = "[" THEN ListAt(s, SkipWs(s, i + 1))
    ELSE IF s[i] = "{" THEN DictAt(s, SkipWs(s, i + 1))
    ELSE ParseFail

ParseValue(s, i) == ValueAt(s, SkipWs(s, i))

\* value ("," value)* "]": the list of the values from i on
ParseElements(s, i) ==
    LET r    == ParseValue(s, i)
        j    == IF r.ok THEN SkipWs(s, r.i) ELSE Len(s) + 1
        rest == ParseElements(s, j + 1)
    IN  IF j <= Len(s) /\ s[j] = ","
        THEN IF rest.ok THEN Parsed(JList(<<r.v>> \o rest.v.v), rest.i)
             ELSE ParseFail
        ELSE IF j <= Len(s) /\ s[j] = "]" THEN Parsed(JList(<<r.v>>), j + 1)
        ELSE ParseFail

\* {key: value} and then the members of f: a repeated key keeps its last value
PutFirst(key, value, f) ==
    [x \in {key} \cup DOMAIN f |-> IF x \in DOMAIN f THEN f[x] ELSE value]

\* string ":" value ("," string ":" value)* "}": the dict of the members
\* from i on
ParseMembers(s, i) ==
    LET q    == SkipWs(s, i)
        key  == IF q <= Len(s) /\ s[q] = QUOTE
                THEN ParseChars(s, q + 1, <<>>) ELSE ParseFail
        c    == IF key.ok THEN SkipWs(s, key.i) ELSE Len(s) + 1
        r    == IF c <= Len(s) /\ s[c] = ":"
                THEN ParseValue(s, c + 1) ELSE ParseFail
        j    == IF r.ok THEN SkipWs(s, r.i) ELSE Len(s) + 1
        rest == ParseMembers(s, j + 1)
    IN  IF j <= Len(s) /\ s[j] = ","
        THEN IF rest.ok
             THEN Parsed(JDict(PutFirst(key.v, r.v, rest.v.v)), rest.i)
             ELSE ParseFail
        ELSE IF j <= Len(s) /\ s[j] = "}"
        THEN Parsed(JDict(PutFirst(key.v, r.v, <<>>)), j + 1)
        ELSE ParseFail

\* nothing but white space may follow the value
WholeText(s, r) == IF r.ok /\ SkipWs(s, r.i) > Len(s) THEN r ELSE ParseFail

\* json.loads(s): the value, or ok = FALSE where json.loads raises
loads(s) == WholeText(s, ParseValue(s, 1))

(***************************************************************************)
(* The markdown file format.                                               *)
(***************************************************************************)
DELIM == <<"-", "-", "-">>
UNSAFE_OPEN == <<"{", "{", "<", " ", "u", "n", "s", "a", "f", "e", " ", ">", "}", "}">>
UNSAFE_CLOSE ==
    <<"{", "{", "<", " ", "/", "u", "n", "s", "a", "f", "e", " ", ">", "}", "}">>

\* the offset from the second '---' to the content, and the length of the tail
\* after the content
CONTENT_SKIP == 19
TAIL_LEN == 17

\* all the 0-based positions of p in s, overlapping ones included
RECURSIVE findall_from(_, _, _)
findall_from(p, s, i) ==
    IF i = -1 THEN <<>> ELSE <<i>> \o findall_from(p, s, find(s, p, i + 1))

findall(p, s) == findall_from(p, s, find(s, p, 0))

\* json_contents: the front matter if it parses to a dict, None otherwise
FrontMatter(parsed) == IF parsed.ok /\ IsDict(parsed.v) THEN parsed.v ELSE None

SplitAt(markdown_contents, front_matter_indices) ==
    IF Len(front_matter_indices) < 2 THEN None
    ELSE [t |-> "pair",
          fm |-> FrontMatter(loads(
                    PySlice(markdown_contents, front_matter_indices[1] + 3,
                            front_matter_indices[2]))),
          html |-> PySlice(markdown_contents,
                           front_matter_indices[2] + CONTENT_SKIP, -TAIL_LEN)]

\* hugo_markdown_to_json: None, or the pair (front matter or None, content)
hugo_markdown_to_json(markdown_contents) ==
    SplitAt(markdown_contents, findall(DELIM, markdown_contents))

create_markdown_str(frontmatter, content) ==
    DELIM \o <<NL>> \o
    dumps(frontmatter) \o <<NL>> \o
    DELIM \o <<NL>> \o
    UNSAFE_OPEN \o <<NL>> \o
    content \o <<NL>> \o
    UNSAFE_CLOSE \o <<NL>>

(***************************************************************************)
(* The local store: the files of CONTENT_LOCATION.                         *)
(***************************************************************************)
CONTENT_LOCATION == <<".", "/">>
MD_SUFFIX == <<".", "m", "d">>

file_from_id(idnum) == CONTENT_LOCATION \o <<"/">> \o idnum \o MD_SUFFIX

\* Path(fname).stem: the last path component without its suffix
RECURSIVE rfind(_, _, _)
rfind(s, c, i) == IF i = 0 \/ s[i] = c THEN i ELSE rfind(s, c, i - 1)

Stem(fname) ==
    LET base == SubSeq(fname, rfind(fname, "/", Len(fname)) + 1, Len(fname))
        dot  == rfind(base, ".", Len(base))
    IN  IF dot <= 1 THEN base ELSE SubSeq(base, 1, dot - 1)

\* A file: whether it exists, whether open() and read() succeed on it (a file
\* that is not UTF-8 or not permitted raises), and its text.
NoFile == [exists |-> FALSE, readable |-> FALSE, text |-> <<>>]
TextFile(text) == [exists |-> TRUE, readable |-> TRUE, text |-> text]
BadFile == [exists |-> TRUE, readable |-> FALSE, text |-> <<>>]

\* glob(CONTENT_LOCATION + "/*.md")
glob_md(fs) == {fname \in DOMAIN fs : fs[fname].exists}

\* read_hugo_markdown: any exception inside the try gives None, and the
\* unpacking of hugo_markdown_to_json's None is such an exception
ReadFile(f) ==
    IF ~f.exists \/ ~f.readable THEN None ELSE hugo_markdown_to_json(f.text)

read_hugo_markdown(fs, idnum) == ReadFile(fs[file_from_id(idnum)])

\* What a write leaves when it raises after open(.., "w") has truncated the
\* file: nothing, or a leading part of the text.
PartialTexts(text) == {<<>>, SubSeq(text, 1, Len(text) \div 2)}

\* write_markdown: the files after it. outcome is the file system's answer:
\* "ok", "open_failed" (open raises), "write_failed" (write raises, partial
\* is what reached the file). The exception is caught in either case.
WriteOutcomes == {"ok", "open_failed", "write_failed"}

write_markdown(fs, id_num, frontmatter, contents, outcome, partial) ==
    LET fname == file_from_id(id_num)
        text  == create_markdown_str(frontmatter, contents)
    IN  CASE outcome = "ok" -> [fs EXCEPT ![fname] = TextFile(text)]
          [] outcome = "open_failed" -> fs
          [] outcome = "write_failed" -> [fs EXCEPT ![fname] = TextFile(partial)]

(***************************************************************************)
(* reformat_obs                                                            *)
(***************************************************************************)
desired_fields ==
    << <<"quality_grade">>, <<"identifications_most_agree">>,
       <<"species_guess">>, <<"identifications_most_disagree">>,
       <<"captive">>, <<"project_ids">>,
       <<"community_taxon_id">>, <<"geojson">>,
       <<"owners_identification_from_vision">>,
       <<"identifications_count">>, <<"obscured">>,
       <<"num_identification_agreements">>,
       <<"num_identification_disagreements">>,
       <<"place_guess">>, <<"photos">> >>

Range(seq) == {seq[n] : n \in DOMAIN seq}

\* whether one of reformat_obs's lookups raises
reformat_obs_raises(obs_json) ==
    \/ ~HasKey(obs_json, <<"uri">>)
    \/ ~HasKey(obs_json, <<"time_observed_at">>)
    \/ ~HasKey(obs_json, <<"taxon">>)
    \/ ~HasKey(Get(obs_json, <<"taxon">>), <<"name">>)
    \/ ~HasKey(Get(obs_json, <<"taxon">>), <<"preferred_common_name">>)
    \/ \E key \in Range(desired_fields) : ~HasKey(obs_json, key)

\* a reformat_obs that keeps the desired fields only
reformat_obs_desired_only(obsid, obs_json) ==
    [id |-> str(obsid),
     metadata |-> JDict([key \in Range(desired_fields) |-> Get(obs_json, key)]),
     content |-> <<>>]

reformat_obs(obsid, obs_json) ==
    [id |-> str(obsid),
     metadata |->
        JDict([key \in {<<"syndication">>, <<"date">>, <<"taxon">>}
                        \cup Range(desired_fields) |->
            CASE key = <<"syndication">> -> Get(obs_json, <<"uri">>)
              [] key = <<"date">> -> Get(obs_json, <<"time_observed_at">>)
              [] key = <<"taxon">> ->
                    JDict([n \in {<<"name">>, <<"common_name">>} |->
                        IF n = <<"name">>
                        THEN Get(Get(obs_json, <<"taxon">>), <<"name">>)
                        ELSE Get(Get(obs_json, <<"taxon">>),
                                 <<"preferred_common_name">>)])
              [] OTHER -> Get(obs_json, key)]),
     content |-> <<>>]

(***************************************************************************)
(* The remote service and the bounds of the model.                         *)
(***************************************************************************)
\* ids the remote service may hold: Ids are ids as it issues them (positive),
\* AnyIds adds an id that is not positive
Ids == {1, 123}
AnyIds == {0, 123}
AllIds == Ids \cup AnyIds

PageSize == 1
MaxRequests == 4
MaxRuns == 2

\* a detail document with every field reformat_obs reads
FullObs(grade, place) ==
    JDict([key \in {<<"uri">>, <<"time_observed_at">>, <<"taxon">>,
                    <<"description">>} \cup Range(desired_fields) |->
        CASE key = <<"uri">> -> JStr(<<"u">>)
          [] key = <<"time_observed_at">> -> JStr(<<"2", "0", "-", "0", "1">>)
          [] key = <<"taxon">> ->
                JDict([n \in {<<"name">>, <<"preferred_common_name">>, <<"rank">>}
                           |-> JStr(<<"x">>)])
          [] key = <<"description">> -> JStr(<<"d">>)
          [] key = <<"quality_grade">> -> JStr(<<grade>>)
          [] key = <<"species_guess">> -> JStr(<<"x", " ", QUOTE, "y", QUOTE>>)
          [] key = <<"place_guess">> -> JStr(place)
          [] key = <<"project_ids">> -> JList(<<JNum(7), JNum(10)>>)
          [] key = <<"photos">> -> JList(<<>>)
          [] key = <<"community_taxon_id">> -> JNum(42)
          [] key = <<"geojson">> -> JWord("null")
          [] key \in {<<"identifications_count">>,
                      <<"num_identification_agreements">>,
                      <<"num_identification_disagreements">>} -> JNum(0)
          [] OTHER -> JWord("false")])

Without(d, k) == JDict([x \in DOMAIN d.v \ {k} |-> d.v[x]])

ObsCasual == FullObs("casual", <<"a">>)
ObsResearch == FullObs("research", <<"a">>)
ObsDashes == FullObs("research", <<"a", " ", "-", "-", "-", " ", "b">>)
ObsNoPhotos == Without(ObsCasual, <<"photos">>)
Observations == {ObsCasual, ObsResearch, ObsDashes, ObsNoPhotos}

\* what <id>.md may hold when a run starts: nothing, what an earlier run wrote
\* for ObsCasual, a text with fewer than two '---' (a write that was cut
\* short), a front matter that is no JSON object, a file that cannot be read
SavedText == create_markdown_str(reformat_obs(1, ObsCasual).metadata, <<>>)
ShortText == SubSeq(SavedText, 1, 5)
ListText == DELIM \o <<NL, "[", "]", NL>> \o DELIM \o <<NL>>
InitialFiles ==
    {NoFile, TextFile(SavedText), TextFile(ShortText), TextFile(ListText), BadFile}

FileNames == {file_from_id(str(id)) : id \in AllIds}

\* the ids of I, newest first
RECURSIVE Descending(_)
Descending(I) ==
    IF I = {} THEN <<>>
    ELSE LET m == CHOOSE x \in I : \A y \in I : y <= x
         IN  <<m>> \o Descending(I \ {m})

\* the listing endpoint: the first PageSize ids, newest first, below the
\* cursor when one is sent
ServerPage(ids, has_id_below, id_below) ==
    LET below == IF has_id_below
                 THEN SelectSeq(ids, LAMBDA x : x < id_below) ELSE ids
    IN  SubSeq(below, 1, Min(PageSize, Len(below)))

(***************************************************************************)
(* The state of a run.                                                     *)
(***************************************************************************)
VARIABLES
    remote_ids,     \* the remote service: the user's observation ids, newest first
    remote_obs,     \* the remote service: the detail document of each id
    files,          \* the local store: file name -> file
    run,            \* the number of this run of the script
    pc,             \* "list", "fetch", "reconcile" or "exited"
    exit_status,    \* the process's exit status once pc = "exited"
    MIN_OBS_ID,     \* the global cursor
    saved_ids,      \* the stems of the files found when the run started
    server_ids,     \* the ids listed so far, then the ids to fetch
    i,              \* the ids of server_ids already gone through
    server_data,    \* the records fetched and reshaped
    k,              \* the records of server_data already reconciled
    requests,       \* the listing requests sent in this run
    request,        \* the last listing request: its id_below, if any
    prev_page,      \* the ids of the page received before that request
    page,           \* the answer to that request
    listed,         \* retrieve_obs_ids_from_server has returned
    fetch_log,      \* the outcome of the detail request of each id gone through
    writes,         \* the calls of write_markdown of this run
    reported,       \* the ids reported as "Unable to read saved data"
    why,            \* what ended the run
    files0,         \* the files when the run started
    prev            \* how the run before this one went

vars == <<remote_ids, remote_obs, files, run, pc, exit_status, MIN_OBS_ID,
          saved_ids, server_ids, i, server_data, k, requests, request,
          prev_page, page, listed, fetch_log, writes, reported, why, files0,
          prev>>

remote == <<remote_ids, remote_obs>>
listing == <<MIN_OBS_ID, server_ids, requests, request, prev_page, page, listed>>
fetching == <<i, server_data, fetch_log>>
reconciling == <<k, writes, reported>>

NoRequest == [has |-> FALSE, id_below |-> -1]
NoPage == [kind |-> "none", ids |-> <<>>]
NoPrev == [ran |-> FALSE, clean |-> FALSE, written |-> 0]

\* the start of the script: lines 16-18 and 231-232
StartOfRun(fs) ==
    /\ pc = "list"
    /\ exit_status = 0
    /\ MIN_OBS_ID = -1
    /\ saved_ids = {Stem(fname) : fname \in glob_md(fs)}
    /\ server_ids = <<>>
    /\ i = 0
    /\ server_data = <<>>
    /\ k = 0
    /\ requests = 0
    /\ request = NoRequest
    /\ prev_page = <<>>
    /\ page = NoPage
    /\ listed = FALSE
    /\ fetch_log = <<>>
    /\ writes = <<>>
    /\ reported = {}
    /\ why = "running"
    /\ files0 = fs

InitOver(I) ==
    /\ remote_ids \in {Descending(S) : S \in SUBSET I}
    /\ remote_obs \in [AllIds -> Observations]
    /\ \A id \in AllIds \ Range(remote_ids) : remote_obs[id] = ObsCasual
    /\ files \in [FileNames -> InitialFiles]
    /\ \A id \in AllIds \ I : files[file_from_id(str(id))] = NoFile
    /\ run = 1
    /\ prev = NoPrev
    /\ StartOfRun(files)

Init == InitOver(Ids)
InitAnyId == InitOver(AnyIds)

\* sys.exit(status), or the interpreter's exit after an uncaught exception
Exit(status, reason) ==
    /\ pc' = "exited"
    /\ exit_status' = status % 256
    /\ why' = reason

(***************************************************************************)
(* retrieve_obs_ids_from_server: one action per way round its loop.        *)
(***************************************************************************)
\* a cursor that is one too high: the page would start at the last id again
id_below_inclusive(min_obs_id) ==
    IF min_obs_id > 0 THEN [has |-> TRUE, id_below |-> min_obs_id + 1]
    ELSE NoRequest

\* the id_below of the next request: sent only when MIN_OBS_ID > 0
id_below(min_obs_id) ==
    IF min_obs_id > 0 THEN [has |-> TRUE, id_below |-> min_obs_id]
    ELSE NoRequest

\* request.urlopen(url) of the listing
SendListRequest ==
    /\ pc = "list"
    /\ requests < MaxRequests
    /\ requests' = requests + 1
    /\ request' = id_below(MIN_OBS_ID)
    /\ prev_page' = page.ids

\* a failed listing request that only ends the loop: the ids collected so far
\* are returned
ListRequestFails_returns ==
    /\ SendListRequest
    /\ page' = [kind |-> "error", ids |-> <<>>]
    /\ pc' = "fetch"
    /\ UNCHANGED <<remote, files, run, exit_status, why, MIN_OBS_ID, saved_ids,
                   server_ids, listed, fetching, reconciling, files0, prev>>

\* urlopen raises: response is None, sys.exit(-1)
ListRequestFails ==
    /\ SendListRequest
    /\ page' = [kind |-> "error", ids |-> <<>>]
    /\ Exit(-1, "listing")
    /\ UNCHANGED <<remote, files, run, MIN_OBS_ID, saved_ids, server_ids, listed,
                   fetching, reconciling, files0, prev>>

\* json.loads raises or the body has no 'results': server_data_part stays
\* None, which is no list, sys.exit(-1)
ListMalformed ==
    /\ SendListRequest
    /\ page' = [kind |-> "malformed", ids |-> <<>>]
    /\ Exit(-1, "listing")
    /\ UNCHANGED <<remote, files, run, MIN_OBS_ID, saved_ids, server_ids, listed,
                   fetching, reconciling, files0, prev>>

\* 'results' is no list: sys.exit(-1)
ListNotList ==
    /\ SendListRequest
    /\ page' = [kind |-> "notlist", ids |-> <<>>]
    /\ Exit(-1, "listing")
    /\ UNCHANGED <<remote, files, run, MIN_OBS_ID, saved_ids, server_ids, listed,
                   fetching, reconciling, files0, prev>>

\* 'results' is a list with an element that has no 'id': d['id'] raises and
\* nothing catches it
ListNoId ==
    /\ SendListRequest
    /\ page' = [kind |-> "noid", ids |-> <<>>]
    /\ Exit(1, "listing")
    /\ UNCHANGED <<remote, files, run, MIN_OBS_ID, saved_ids, server_ids, listed,
                   fetching, reconciling, files0, prev>>

\* a page of ids: empty, the loop ends and the function returns; otherwise
\* the ids are collected and the last one becomes MIN_OBS_ID
ListPage ==
    /\ SendListRequest
    /\ LET server_data_part ==
               ServerPage(remote_ids, request'.has, request'.id_below)
       IN  /\ page' = [kind |-> "ids", ids |-> server_data_part]
           /\ IF Len(server_data_part) = 0
              THEN /\ listed' = TRUE
                   /\ pc' = "fetch"
                   /\ UNCHANGED <<server_ids, MIN_OBS_ID>>
              ELSE /\ server_ids' = server_ids \o server_data_part
                   /\ MIN_OBS_ID' = server_data_part[Len(server_data_part)]
                   /\ UNCHANGED <<listed, pc>>
    /\ UNCHANGED <<remote, files, run, exit_status, why, saved_ids,
                   fetching, reconciling, files0, prev>>

(***************************************************************************)
(* retrieve_data_from_server: one action per way round its loop.           *)
(***************************************************************************)
FetchNext ==
    /\ pc = "fetch"
    /\ i < Len(server_ids)
    /\ i' = i + 1

\* a failed detail request that ends the run
FetchFails_exits ==
    /\ FetchNext
    /\ fetch_log' = Append(fetch_log, "error")
    /\ Exit(-1, "fetch")
    /\ UNCHANGED <<remote, files, run, saved_ids, listing, server_data,
                   reconciling, files0, prev>>

\* urlopen raises: response is None, continue
FetchFails ==
    /\ FetchNext
    /\ fetch_log' = Append(fetch_log, "error")
    /\ UNCHANGED <<remote, files, run, pc, exit_status, why, saved_ids, listing,
                   server_data, reconciling, files0, prev>>

\* json.loads(...)['results'][0] raises: continue
FetchMalformed ==
    /\ FetchNext
    /\ fetch_log' = Append(fetch_log, "malformed")
    /\ UNCHANGED <<remote, files, run, pc, exit_status, why, saved_ids, listing,
                   server_data, reconciling, files0, prev>>

\* the detail document is received and reshaped
FetchReshaped ==
    /\ FetchNext
    /\ ~reformat_obs_raises(remote_obs[server_ids[i + 1]])
    /\ fetch_log' = Append(fetch_log, "ok")
    /\ server_data' = Append(server_data,
           reformat_obs(server_ids[i + 1], remote_obs[server_ids[i + 1]]))
    /\ UNCHANGED <<remote, files, run, pc, exit_status, why, saved_ids, listing,
                   reconciling, files0, prev>>

\* a reformat_obs failure that is caught and skips the id
FetchReshapeRaises_skips ==
    /\ FetchNext
    /\ reformat_obs_raises(remote_obs[server_ids[i + 1]])
    /\ fetch_log' = Append(fetch_log, "ok")
    /\ UNCHANGED <<remote, files, run, pc, exit_status, why, saved_ids, listing,
                   server_data, reconciling, files0, prev>>

\* the detail document is received and reformat_obs raises: nothing catches it
FetchReshapeRaises ==
    /\ FetchNext
    /\ reformat_obs_raises(remote_obs[server_ids[i + 1]])
    /\ fetch_log' = Append(fetch_log, "ok")
    /\ Exit(1, "reshape")
    /\ UNCHANGED <<remote, files, run, saved_ids, listing, server_data,
                   reconciling, files0, prev>>

\* the loop is over: return server_data
FetchReturn ==
    /\ pc = "fetch"
    /\ i = Len(server_ids)
    /\ pc' = "reconcile"
    /\ UNCHANGED <<remote, files, run, exit_status, why, saved_ids, listing,
                   fetching, reconciling, files0, prev>>

(***************************************************************************)
(* The reconciliation loop: one action per way round it.                   *)
(***************************************************************************)
ReconcileNext ==
    /\ pc = "reconcile"
    /\ k < Len(server_data)
    /\ k' = k + 1

WriteCall(kind, data, outcome) ==
    [kind |-> kind, id |-> data.id, metadata |-> data.metadata, outcome |-> outcome]

\* write_markdown(id_num, data['metadata'], data['content']) and the loop's
\* next turn
Write(kind, data) ==
    \E outcome \in WriteOutcomes :
    \E partial \in PartialTexts(create_markdown_str(data.metadata, data.content)) :
        /\ files' = write_markdown(files, data.id, data.metadata, data.content,
                                   outcome, partial)
        /\ writes' = Append(writes, WriteCall(kind, data, outcome))

\* a comparison by identity: a dict read from a file is never the fetched one
Changed_by_identity(saved_fm, metadata) == TRUE

\* saved_fm != data['metadata']
Changed(saved_fm, metadata) == saved_fm # metadata

\* New observation found
ReconcileCreate ==
    /\ ReconcileNext
    /\ server_data[k + 1].id \notin saved_ids
    /\ Write("create", server_data[k + 1])
    /\ UNCHANGED <<remote, run, pc, exit_status, why, saved_ids, listing,
                   fetching, reported, files0, prev>>

\* read_hugo_markdown returns None: unpacking it into saved_fm, saved_content
\* raises and nothing catches it
ReconcileUnpackRaises ==
    /\ ReconcileNext
    /\ server_data[k + 1].id \in saved_ids
    /\ read_hugo_markdown(files, server_data[k + 1].id) = None
    /\ Exit(1, "unpack")
    /\ UNCHANGED <<remote, files, run, saved_ids, listing, fetching, writes,
                   reported, files0, prev>>

\* saved_fm is None: "Unable to read saved data id"
ReconcileUnreadable ==
    /\ ReconcileNext
    /\ server_data[k + 1].id \in saved_ids
    /\ read_hugo_markdown(files, server_data[k + 1].id) # None
    /\ read_hugo_markdown(files, server_data[k + 1].id).fm = None
    /\ reported' = reported \cup {server_data[k + 1].id}
    /\ UNCHANGED <<remote, files, run, pc, exit_status, why, saved_ids, listing,
                   fetching, writes, files0, prev>>

\* saved_fm != data['metadata']: the observation has changed
ReconcileUpdate ==
    /\ ReconcileNext
    /\ server_data[k + 1].id \in saved_ids
    /\ read_hugo_markdown(files, server_data[k + 1].id) # None
    /\ read_hugo_markdown(files, server_data[k + 1].id).fm # None
    /\ Changed(read_hugo_markdown(files, server_data[k + 1].id).fm,
               server_data[k + 1].metadata)
    /\ Write("update", server_data[k + 1])
    /\ UNCHANGED <<remote, run, pc, exit_status, why, saved_ids, listing,
                   fetching, reported, files0, prev>>

\* saved_fm == data['metadata']: nothing to do
ReconcileUnchanged ==
    /\ ReconcileNext
    /\ server_data[k + 1].id \in saved_ids
    /\ read_hugo_markdown(files, server_data[k + 1].id) # None
    /\ read_hugo_markdown(files, server_data[k + 1].id).fm # None
    /\ ~Changed(read_hugo_markdown(files, server_data[k + 1].id).fm,
                server_data[k + 1].metadata)
    /\ UNCHANGED <<remote, files, run, pc, exit_status, why, saved_ids, listing,
                   fetching, writes, reported, files0, prev>>

\* print("Completed") and the end of the script
Completed ==
    /\ pc = "reconcile"
    /\ k = Len(server_data)
    /\ Exit(0, "completed")
    /\ UNCHANGED <<remote, files, run, saved_ids, listing, fetching,
                   reconciling, files0, prev>>

(***************************************************************************)
(* The script is run again (it is a periodic job) against the same remote  *)
(* data and the files the run before left.                                 *)
(***************************************************************************)
Clean ==
    /\ why = "completed"
    /\ \A n \in DOMAIN fetch_log : fetch_log[n] = "ok"
    /\ \A n \in DOMAIN writes : writes[n].outcome = "ok"

NextRun ==
    /\ pc = "exited"
    /\ run < MaxRuns
    /\ run' = run + 1
    /\ prev' = [ran |-> TRUE, clean |-> Clean, written |-> Len(writes)]
    /\ pc' = "list"
    /\ exit_status' = 0
    /\ MIN_OBS_ID' = -1
    /\ saved_ids' = {Stem(fname) : fname \in glob_md(files)}
    /\ server_ids' = <<>>
    /\ i' = 0
    /\ server_data' = <<>>
    /\ k' = 0
    /\ requests' = 0
    /\ request' = NoRequest
    /\ prev_page' = <<>>
    /\ page' = NoPage
    /\ listed' = FALSE
    /\ fetch_log' = <<>>
    /\ writes' = <<>>
    /\ reported' = {}
    /\ why' = "running"
    /\ files0' = files
    /\ UNCHANGED <<remote, files>>

Next ==
    \/ ListRequestFails
    \/ ListMalformed
    \/ ListNotList
    \/ ListNoId
    \/ ListPage
    \/ FetchFails
    \/ FetchMalformed
    \/ FetchReshaped
    \/ FetchReshapeRaises
    \/ FetchReturn
    \/ ReconcileCreate
    \/ ReconcileUnpackRaises
    \/ ReconcileUnreadable
    \/ ReconcileUpdate
    \/ ReconcileUnchanged
    \/ Completed
    \/ NextRun

Spec == Init /\ [][Next]_vars
SpecAnyId == InitAnyId /\ [][Next]_vars

(***************************************************************************)
(* Properties.                                                             *)
(***************************************************************************)
Last(seq) == seq[Len(seq)]
FileOf(fs, id) == fs[file_from_id(str(id))]

\* the record the reconciliation loop is about to take, and what the next
\* state shows of its turn
Reconciling == pc = "reconcile" /\ k < Len(server_data)
WriteCalled ==
    /\ Len(writes') = Len(writes) + 1
    /\ Last(writes').id = server_data[k + 1].id
    /\ Last(writes').metadata = server_data[k + 1].metadata
ReadBack(fs, data) ==
    read_hugo_markdown(fs, data.id) =
        [t |-> "pair", fm |-> data.metadata, html |-> data.content]

\* C1: in the reconciliation loop a record whose id was not in the store at
\* start-up is written; a record whose stored metadata equals the fetched
\* metadata is not written; a record whose stored metadata is readable and
\* differs is written and, the write succeeding, the stored metadata then
\* equals the fetched metadata.
C1_ReconcileCases ==
    [][Reconciling =>
        LET data  == server_data[k + 1]
            saved == read_hugo_markdown(files, data.id)
        IN  /\ data.id \notin saved_ids => WriteCalled
            /\ (data.id \in saved_ids /\ saved # None /\ saved.fm = data.metadata)
                    => (writes' = writes /\ files' = files)
            /\ (data.id \in saved_ids /\ saved # None /\ saved.fm # None
                                      /\ saved.fm # data.metadata)
                    => /\ WriteCalled
                       /\ Last(writes').outcome = "ok"
                            => read_hugo_markdown(files', data.id).fm
                                    = data.metadata]_vars

\* C2: after a run that completed with every fetch and every write
\* succeeding, the next run, against the same remote data and the files the
\* first run left, calls write_markdown not once.
C2_SecondRunWritesNothing == (prev.ran /\ prev.clean) => writes = <<>>

\* a second run has completed and gone over a record, after a first run that
\* wrote
C2_Witness ==
    /\ prev.ran /\ prev.clean /\ prev.written >= 1
    /\ why = "completed" /\ k >= 1

ListingFailed == page.kind \in {"error", "malformed", "notlist", "noid"}
C4_ListingFailureIsFatal ==
    ListingFailed =>
        /\ pc = "exited" /\ exit_status # 0
        /\ fetch_log = <<>> /\ i = 0
        /\ writes = <<>> /\ files = files0

\* a listing request failed after a page of ids had been received
C4_Witness == page.kind = "error" /\ server_ids # <<>> /\ pc = "exited"

\* C5: a detail request that fails, or whose body is malformed, skips that
\* id: it does not end the run, the id's file stays as it was when the run
\* started, and a run that completes has gone through every id of the
\* listing and reconciled every record it fetched.
FailedAt(n) == fetch_log[n] \in {"error", "malformed"}
C6_UnreadableIsSkipped ==
    [][(/\ Reconciling
        /\ server_data[k + 1].id \in saved_ids
        /\ \/ read_hugo_markdown(files, server_data[k + 1].id) = None
           \/ read_hugo_markdown(files, server_data[k + 1].id).fm = None)
       => /\ server_data[k + 1].id \in reported'
          /\ files' = files /\ writes' = writes
          /\ pc' = "reconcile"]_vars

\* C7: a write_markdown that fails does not end the run and leaves the file
\* as it was.
C7_FailedWriteChangesNothing ==
    [][(Len(writes') = Len(writes) + 1 /\ Last(writes').outcome # "ok")
       => (files' = files /\ pc' = pc)]_vars

\* C8: a file written by write_markdown reads back, with read_hugo_markdown,
\* as the metadata and the content that were written.
C8_RoundTrip ==
    [][(Reconciling /\ Len(writes') = Len(writes) + 1
                    /\ Last(writes').outcome = "ok")
       => ReadBack(files', server_data[k + 1])]_vars

\* C9: a detail document that lacks a field reformat_obs reads ends the run
\* with a status that is not 0: it is the last id fetched, and no record of
\* the run is reconciled.
C9_ReshapeFailureIsFatal ==
    \A n \in DOMAIN fetch_log :
        (fetch_log[n] = "ok" /\ reformat_obs_raises(remote_obs[server_ids[n]]))
        => /\ pc = "exited" /\ exit_status # 0
           /\ n = Len(fetch_log) /\ n = i
           /\ k = 0 /\ writes = <<>> /\ files = files0

\* reformat_obs raised on the second id, after a record had been fetched
C9_Witness ==
    /\ why = "reshape" /\ Len(fetch_log) = 2 /\ Len(server_data) = 1
    /\ FileOf(files, server_ids[1]) = NoFile

\* C10: the store empty and the remote listing the one id 123, a run that
\* fetches it and whose write succeeds leaves exactly one file, 123.md, and
\* the metadata written to it has exactly N keys.
FILE_123 == <<".", "/", "/", "1", "2", "3", ".", "m", "d">>
OneRecordScenario ==
    /\ \A fname \in FileNames : ~files0[fname].exists
    /\ remote_ids = <<123>>
    /\ fetch_log = <<"ok">>
    /\ why = "completed"
    /\ \A n \in DOMAIN writes : writes[n].outcome = "ok"
OneFileWithKeys(N) ==
    /\ glob_md(files) = {FILE_123}
    /\ Len(writes) = 1
    /\ files[FILE_123] =
            TextFile(create_markdown_str(writes[1].metadata, <<>>))
    /\ Cardinality(DOMAIN writes[1].metadata.v) = N

====
